---- MODULE Spec2Model ----
(***************************************************************************)
(* clawlite: the serial execution lane (src/src/lane.ts) and the agent's   *)
(* turn loop (src/src/agent.ts) with its context guard                     *)
(* (src/src/context.ts), as state machines.                                *)
(*                                                                         *)
(* JavaScript runs every piece of synchronous code to completion, so one   *)
(* action of the model is the code that runs between two suspension points *)
(* (await): a call from the host up to the point where control returns,    *)
(* or the continuation of an await up to the next one.                     *)
(***************************************************************************)
EXTENDS Naturals, Sequences, FiniteSets, TLC

(***************************************************************************)
(* Bounds of the model.                                                    *)
(***************************************************************************)
\* tasks handed to enqueue in one behaviour of the lane specification
MaxTasks == 4

\* the lane keys callers use: LaneManager.run uses "default", runParallel any name
LaneNames == {"default", "bg"}

TaskIds == 1..MaxTasks

NoTask == 0

VARIABLES
    lanes,      \* LaneManager.lanes: lane key -> Lane (queue, running, and the item process() awaits)
    task,       \* every task handed to enqueue: its key, where it is in its lifecycle, its outcome, its handle
    nextTask,   \* number of the next task to be enqueued (tasks are numbered in the order of the enqueue calls)
    enqLog,     \* per lane: the tasks in the order they were pushed on the queue
    startLog,   \* per lane: the tasks in the order process() called them
    doneLog,    \* per lane: the tasks in the order process() resolved or rejected their handles
    messages,   \* Agent.messages: the conversation
    session,    \* the lines SessionStore.append has written to the session file
    output,     \* the notices passed to onOutput, each with the turn that emitted it
    turn,       \* per handleMessage call: its input, its locals (turns, activeProvider, the tool calls
                \* still to dispatch), the await it is suspended at, and the provider calls it has made
    writers,    \* the turns that changed the conversation, in the order they did (a run of changes by one turn once)
    fallback,   \* whether AgentConfig.fallback is configured
    budget,     \* how many more times the environment may depart from its default behaviour
    clock,      \* the reading of the clock (Date.now) that the ids of the latest requests were made from
    guard       \* the last call made to the ContextGuard on its own: the method, its arguments, its result

laneVars == <<lanes, task, nextTask, enqLog, startLog, doneLog>>

agentVars == <<messages, session, output, turn, writers, fallback, budget, clock, guard>>

vars == <<lanes, task, nextTask, enqLog, startLog, doneLog,
          messages, session, output, turn, writers, fallback, budget, clock, guard>>

(***************************************************************************)
(* Lane (src/src/lane.ts)                                                  *)
(***************************************************************************)
\* new Lane(): queue = [], running = false; item is the local of process(), none while it is not suspended
NewLane == [queue |-> <<>>, running |-> FALSE, item |-> NoTask]

\* a task not yet handed to enqueue; awaits is the task whose handle its body is waiting for, if any
NewTask == [key |-> "", st |-> "new", throws |-> FALSE, out |-> [kind |-> "none", val |-> ""],
            handle |-> "none", hval |-> [kind |-> "none", val |-> ""], nsettle |-> 0, awaits |-> NoTask]

\* the value a lane-specification task settles with: its own, so that a handle can be told to hold another task's
OwnValue(t) == "r" \o ToString(t)

\* item.resolve(result) / item.reject(e): the handle of item h gets outcome o; a promise settles only once
Settle(tk, h, o) ==
    [tk EXCEPT ![h] = [@ EXCEPT !.st = "done",
                                !.handle = IF @ = "pending" THEN (IF o.kind = "ok" THEN "resolved" ELSE "rejected") ELSE @,
                                !.hval = IF tk[h].handle = "pending" THEN o ELSE @,
                                !.nsettle = @ + 1]]

\* item.task() throwing synchronously: the catch rejects the item with what was thrown
ThrownBy(t) == [kind |-> "err", val |-> OwnValue(t)]

\* how many items at the head of q throw synchronously when called: the loop rejects them without suspending
RECURSIVE SyncPrefix(_, _)
SyncPrefix(q, tk) ==
    IF q = <<>> \/ ~tk[Head(q)].throws THEN 0 ELSE 1 + SyncPrefix(Tail(q), tk)

RECURSIVE SettleAll(_, _)
SettleAll(tk, hs) ==
    IF hs = <<>> THEN tk
    ELSE SettleAll(Settle([tk EXCEPT ![Head(hs)].out = ThrownBy(Head(hs))], Head(hs), ThrownBy(Head(hs))), Tail(hs))

\* the while loop of process(), from its test to the next await or to its exit (lane.ts 34-44):
\* shift the head and call it; a synchronous throw is caught and rejected and the loop goes on;
\* otherwise the loop suspends on the task's promise; when the queue is empty running is reset.
\* Result: the lane, the tasks, the items called (started) and the items rejected on the way.
whileLoopStuck(l, tk) ==
    LET n == SyncPrefix(l.queue, tk)
        thrown == SubSeq(l.queue, 1, n)
        tk1 == SettleAll(tk, thrown)
    IN  IF n < Len(l.queue)
        THEN [lane |-> [queue |-> SubSeq(l.queue, n + 2, Len(l.queue)), running |-> TRUE, item |-> l.queue[n + 1]],
              task |-> [tk1 EXCEPT ![l.queue[n + 1]].st = "executing"],
              started |-> SubSeq(l.queue, 1, n + 1), settled |-> thrown]
        ELSE [lane |-> [queue |-> <<>>, running |-> TRUE, item |-> NoTask],
              task |-> tk1, started |-> thrown, settled |-> thrown]

whileLoop(l, tk) ==
    LET n == SyncPrefix(l.queue, tk)
        thrown == SubSeq(l.queue, 1, n)
        tk1 == SettleAll(tk, thrown)
    IN  IF n < Len(l.queue)
        THEN [lane |-> [queue |-> SubSeq(l.queue, n + 2, Len(l.queue)), running |-> TRUE, item |-> l.queue[n + 1]],
              task |-> [tk1 EXCEPT ![l.queue[n + 1]].st = "executing"],
              started |-> SubSeq(l.queue, 1, n + 1), settled |-> thrown]
        ELSE [lane |-> [queue |-> <<>>, running |-> FALSE, item |-> NoTask],
              task |-> tk1, started |-> thrown, settled |-> thrown]

\* process() without its guard: a second loop is started while one is suspended
processUnguarded(l, tk) == whileLoop([l EXCEPT !.running = TRUE], tk)

\* Lane.process (lane.ts 30-45), called from enqueue: nothing if a loop is already running
process(l, tk) ==
    IF l.running
    THEN [lane |-> l, task |-> tk, started |-> <<>>, settled |-> <<>>]
    ELSE whileLoop([l EXCEPT !.running = TRUE], tk)

\* the count with the item process() is suspended on
pendingWithCurrent(l) == Len(l.queue) + (IF l.item # NoTask THEN 1 ELSE 0)

\* Lane.pending (lane.ts 47-49): this.queue.length
pending(l) == Len(l.queue)

\* Lane.isRunning (lane.ts 51-53)
isRunning(l) == l.running

\* every name on the one lane
getLaneShared(name) == "default"

\* LaneManager.getLane (lane.ts 59-64): the lane of a name is the map's entry for that name
getLane(name) == name

\* getLane's side effect: the entry is created on first use
WithLane(ls, key) == IF key \in DOMAIN ls THEN ls ELSE ls @@ (key :> NewLane)

\* the continuation of `await item.task()` delivering to the wrong waiter: the newest pending handle
deliverNewest(l, tk) ==
    LET pend == {t \in DOMAIN tk : tk[t].handle = "pending"}
        h == CHOOSE t \in pend : \A u \in pend : u <= t
    IN  Settle([tk EXCEPT ![l.item].st = "done"], h, tk[l.item].out)

\* the continuation of `await item.task()` (lane.ts 37-41): the item's own resolve or reject gets the outcome
deliver(l, tk) == Settle(tk, l.item, tk[l.item].out)

\* the task put at the front of the queue
unshift(q, t) == <<t>> \o q

\* this.queue.push(...) (lane.ts 21)
push(q, t) == Append(q, t)

\* Lane.enqueue (lane.ts 19-28) through LaneManager.run / runParallel (lane.ts 69-78):
\* push the task on the lane of `name`, then process(). Result: the lanes and the tasks after the
\* call, the lane used, and the items process() started and settled before it returned.
enqueue(name, t, throws) ==
    LET key == getLane(name)
        ls == WithLane(lanes, key)
        l1 == [ls[key] EXCEPT !.queue = push(@, t)]
        tk1 == [task EXCEPT ![t] = [NewTask EXCEPT !.key = name, !.st = "queued", !.throws = throws,
                                                  !.handle = "pending"]]
        r == process(l1, tk1)
    IN  [lanes |-> [ls EXCEPT ![key] = r.lane], task |-> r.task, key |-> key,
         started |-> r.started, settled |-> r.settled]

\* process() resumed after `await item.task()` (lane.ts 37-42): deliver the outcome, then go round the loop
resume(key) ==
    LET l == lanes[key]
        tk1 == deliver(l, task)
        r == whileLoop([l EXCEPT !.item = NoTask], tk1)
    IN  [lanes |-> [lanes EXCEPT ![key] = r.lane], task |-> r.task, key |-> key,
         started |-> r.started, settled |-> <<l.item>> \o r.settled]

\* the lane's state after a call e of enqueue or resume, with tk for the tasks and enq the tasks pushed
LaneCommit(e, tk, enq) ==
    /\ lanes' = e.lanes
    /\ task' = tk
    /\ nextTask' = nextTask + Len(enq)
    /\ enqLog' = [enqLog EXCEPT ![e.key] = @ \o enq]
    /\ startLog' = [startLog EXCEPT ![e.key] = @ \o e.started]
    /\ doneLog' = [doneLog EXCEPT ![e.key] = @ \o e.settled]

\* new LaneManager(): no lane yet; no task handed over yet
LaneInit ==
    /\ lanes = <<>>
    /\ task = [t \in TaskIds |-> NewTask]
    /\ nextTask = 1
    /\ enqLog = [k \in LaneNames |-> <<>>]
    /\ startLog = [k \in LaneNames |-> <<>>]
    /\ doneLog = [k \in LaneNames |-> <<>>]

(***************************************************************************)
(* Strings (JavaScript String methods used by the code)                    *)
(***************************************************************************)
\* String.prototype.includes
Contains(s, sub) ==
    \E i \in 1..(Len(s) + 1) : i + Len(sub) - 1 <= Len(s) /\ SubSeq(s, i, i + Len(sub) - 1) = sub

UpperLetters == "ABCDEFGHIJKLMNOPQRSTUVWXYZ"

LowerLetters == "abcdefghijklmnopqrstuvwxyz"

LowerChar(c) ==
    IF \E i \in 1..Len(UpperLetters) : SubSeq(UpperLetters, i, i) = c
    THEN LET i == CHOOSE j \in 1..Len(UpperLetters) : SubSeq(UpperLetters, j, j) = c
         IN  SubSeq(LowerLetters, i, i)
    ELSE c

\* String.prototype.toLowerCase
RECURSIVE toLowerCase(_)
toLowerCase(s) ==
    IF Len(s) = 0 THEN "" ELSE LowerChar(SubSeq(s, 1, 1)) \o toLowerCase(SubSeq(s, 2, Len(s)))

\* Array.prototype.join on strings
RECURSIVE join(_, _)
join(parts, sep) ==
    IF parts = <<>> THEN ""
    ELSE IF Len(parts) = 1 THEN parts[1]
    ELSE parts[1] \o sep \o join(Tail(parts), sep)

(***************************************************************************)
(* Messages (src/src/llm/types.ts); an optional field is a field the       *)
(* record may lack.                                                        *)
(***************************************************************************)
Msg(role, content) == [role |-> role, content |-> content]

AssistantCalls(content, calls) == [role |-> "assistant", content |-> content, tool_calls |-> calls]

ToolMsg(content, id) == [role |-> "tool", content |-> content, tool_call_id |-> id]

ToolCall(id, name, arguments) == [id |-> id, function |-> [name |-> name, arguments |-> arguments]]

HasToolCalls(msg) == "tool_calls" \in DOMAIN msg

(***************************************************************************)
(* Providers (src/src/llm/groq.ts): the primary is the local Ollama        *)
(* provider, the fallback the Groq provider, as src/src/index.ts builds    *)
(* them from the documented configuration.                                 *)
(***************************************************************************)
Primary == "ollama"

Fallback == "groq"

NoProvider == "none"

\* Math.ceil(text.length / 3.5)
OllamaEstimateTokens(text) == (2 * Len(text) + 6) \div 7

\* Math.ceil(text.length / 4)
GroqEstimateTokens(text) == (Len(text) + 3) \div 4

\* provider.estimateTokens(text)
estimateTokens(provider, text) ==
    IF provider = Primary THEN OllamaEstimateTokens(text) ELSE GroqEstimateTokens(text)

(***************************************************************************)
(* ContextGuard (src/src/context.ts)                                       *)
(***************************************************************************)
\* new ContextGuard(maxTokens, compactThreshold): the budget the model runs with
maxTokens == 160

\* compactThreshold 0.8, as the fraction ThresholdNum / ThresholdDen
ThresholdNum == 4

ThresholdDen == 5

keep == 4

RECURSIVE SumArgs(_, _)
SumArgs(calls, provider) ==
    IF calls = <<>> THEN 0
    ELSE estimateTokens(provider, Head(calls).function.arguments) + SumArgs(Tail(calls), provider)

\* ContextGuard.estimateTotal (context.ts 77-88)
RECURSIVE estimateTotal(_, _)
estimateTotal(msgs, provider) ==
    IF msgs = <<>> THEN 0
    ELSE estimateTokens(provider, Head(msgs).content)
         + (IF HasToolCalls(Head(msgs)) THEN SumArgs(Head(msgs).tool_calls, provider) ELSE 0)
         + estimateTotal(Tail(msgs), provider)

\* the comparison turned round
needsCompactionBelow(msgs, provider, max) ==
    estimateTotal(msgs, provider) * ThresholdDen < max * ThresholdNum

\* ContextGuard.needsCompaction (context.ts 19-22) of a guard constructed with max as its
\* maxTokens: totalTokens > this.maxTokens * this.threshold
needsCompactionWith(msgs, provider, max) ==
    estimateTotal(msgs, provider) * ThresholdDen > max * ThresholdNum

\* the comparison with >= for >
needsCompactionAtLeast(msgs, provider) ==
    estimateTotal(msgs, provider) * ThresholdDen >= maxTokens * ThresholdNum

\* ContextGuard.needsCompaction (context.ts 19-22) of the agent's guard
needsCompaction(msgs, provider) == needsCompactionWith(msgs, provider, maxTokens)

\* truncate (context.ts 91-94)
truncate(text, max) ==
    IF Len(text) <= max THEN text ELSE SubSeq(text, 1, max) \o "..."

RECURSIVE ToolNames(_)
ToolNames(calls) ==
    IF calls = <<>> THEN <<>> ELSE <<Head(calls).function.name>> \o ToolNames(Tail(calls))

\* the digest lines of the summarised messages (context.ts 42-56); a system message gives no line
RECURSIVE summaryParts(_)
summaryParts(msgs) ==
    IF msgs = <<>> THEN <<>>
    ELSE LET msg == Head(msgs)
             line == IF msg.role = "user" THEN <<"User asked: " \o truncate(msg.content, 100)>>
                     ELSE IF msg.role = "assistant"
                          THEN IF HasToolCalls(msg)
                               THEN <<"Assistant used tools: " \o join(ToolNames(msg.tool_calls), ", ")>>
                               ELSE <<"Assistant: " \o truncate(msg.content, 100)>>
                     ELSE IF msg.role = "tool" THEN <<"Tool result: " \o truncate(msg.content, 60)>>
                     ELSE <<>>
         IN  line \o summaryParts(Tail(msgs))

\* Array.prototype.slice(0, -n)
SliceButLast(xs, n) == SubSeq(xs, 1, Len(xs) - n)

\* the first n for the last n
SliceFirst(xs, n) == IF Len(xs) <= n THEN xs ELSE SubSeq(xs, 1, n)

\* Array.prototype.slice(-n)
SliceLast(xs, n) == IF Len(xs) <= n THEN xs ELSE SubSeq(xs, Len(xs) - n + 1, Len(xs))

\* compact without its two early returns
compactUnguarded(msgs, provider) ==
    LET hasSystem == msgs # <<>> /\ msgs[1].role = "system"
        nonSystem == IF hasSystem THEN Tail(msgs) ELSE msgs
        toSummarise == IF Len(nonSystem) <= keep THEN <<>> ELSE SliceButLast(nonSystem, keep)
        recent == SliceLast(nonSystem, keep)
        summary == Msg("user", "[Context compacted. Summary of earlier conversation:\n"
                               \o join(summaryParts(toSummarise), "\n")
                               \o "\n]\nContinue from here.")
    IN  (IF hasSystem THEN <<msgs[1]>> ELSE <<>>) \o <<summary>> \o recent

\* compact that does not put the system message back
compactDropsSystem(msgs, provider) ==
    IF Len(msgs) <= 4 THEN msgs
    ELSE LET hasSystem == msgs[1].role = "system"
             nonSystem == IF hasSystem THEN Tail(msgs) ELSE msgs
             toSummarise == SliceButLast(nonSystem, keep)
             recent == SliceLast(nonSystem, keep)
             summary == Msg("user", "[Context compacted. Summary of earlier conversation:\n"
                                    \o join(summaryParts(toSummarise), "\n")
                                    \o "\n]\nContinue from here.")
         IN  IF toSummarise = <<>> THEN msgs
             ELSE <<summary>> \o recent

\* ContextGuard.compact (context.ts 28-75)
compact(msgs, provider) ==
    IF Len(msgs) <= 4 THEN msgs
    ELSE LET hasSystem == msgs[1].role = "system"
             nonSystem == IF hasSystem THEN Tail(msgs) ELSE msgs
             toSummarise == SliceButLast(nonSystem, keep)
             recent == SliceLast(nonSystem, keep)
             summary == Msg("user", "[Context compacted. Summary of earlier conversation:\n"
                                    \o join(summaryParts(toSummarise), "\n")
                                    \o "\n]\nContinue from here.")
         IN  IF toSummarise = <<>> THEN msgs
             ELSE (IF hasSystem THEN <<msgs[1]>> ELSE <<>>) \o <<summary>> \o recent

(***************************************************************************)
(* Agent (src/src/agent.ts)                                                *)
(***************************************************************************)
MAX_TURNS == 15

SYSTEM_PROMPT == "You are a helpful coding assistant running locally. You have access to tools for shell commands and file operations.\n\nRules:\n- Be concise. Short answers save context tokens.\n- Use tools when needed, don't guess file contents.\n- One tool call at a time for reliability.\n- If a command fails, explain why and suggest alternatives.\n- Ask for clarification if the request is ambiguous."

\* handleMessage calls in one behaviour of the agent specification
MaxMsgs == 2

\* the loop iterations of a turn in which the providers, the tools and the session file may depart
\* from their default behaviour (a response asking for one known tool with well-formed arguments,
\* a tool that returns its output, a write that succeeds)
FreeRounds == 2

\* how many such departures one behaviour may hold
Budget == 2

\* tool invocation requests in one response
MaxCalls == 2

UserInputs == {"hi", "Review a.ts"}

\* the input that costs the budget nothing
DefaultInput == "hi"

\* the names ToolRegistry.register was called with (src/src/index.ts): the shell and the file tools
RegisteredTools == {"shell", "read_file", "write_file", "edit_file"}

\* SkillLoader.skills: one skill file, with a trigger
LoadedSkills == <<[name |-> "code-review", trigger |-> "review", content |-> "Point out bugs first."]>>

\* the filter of SkillLoader.getRelevant (registry.ts 114-117)
IsRelevant(skill, lower) ==
    "trigger" \notin DOMAIN skill \/ Contains(lower, toLowerCase(skill.trigger))

\* SkillLoader.getRelevant (registry.ts 112-118)
getRelevant(userMessage) ==
    SelectSeq(LoadedSkills, LAMBDA skill : IsRelevant(skill, toLowerCase(userMessage)))

RECURSIVE SkillParts(_)
SkillParts(skills) ==
    IF skills = <<>> THEN <<>>
    ELSE <<"[Skill: " \o Head(skills).name \o "]\n" \o Head(skills).content>> \o SkillParts(Tail(skills))

\* SkillLoader.buildPrompt (registry.ts 123-132)
buildPrompt(userMessage) ==
    LET relevant == getRelevant(userMessage)
    IN  IF relevant = <<>> THEN "" ELSE "\n\n" \o join(SkillParts(relevant), "\n\n")

\* JSON.parse on the argument payloads the model's providers send: an object, the value null
\* (valid JSON that is no object), or a SyntaxError
JsonValue(text) ==
    IF text \in {"{\"command\":\"ls\"}", "{}"} THEN "object"
    ELSE IF text = "null" THEN "null"
    ELSE "SyntaxError"

\* whether JSON.parse returns (agent.ts 131-133)
JsonParses(text) == JsonValue(text) # "SyntaxError"

\* a handleMessage call that has not been made yet. pc is the await the turn is suspended at:
\* "chat" (agent.ts 89), "retry" (agent.ts 97), "tool" (agent.ts 146); "new" before the lane has
\* called the task, "done" once it has returned or thrown. For the properties: chats lists the
\* provider calls made and how each ended, faults what was thrown inside the turn.
NoTurn == [input |-> "", pc |-> "new", turns |-> 0, active |-> NoProvider, calls |-> <<>>,
           chats |-> <<>>, faults |-> {}]

NoOutcome == [kind |-> "none", val |-> ""]

\* the agent's state as the synchronous code of turn t sees and changes it, with what the turn
\* returned or threw (ret) once it has
Frame(t, tr) ==
    [messages |-> messages, session |-> session, output |-> output, tr |-> tr, ret |-> NoOutcome, by |-> t]

Running(S) == S.ret.kind = "none"

\* return text: the promise of the async task resolves
return(S, text) == [S EXCEPT !.ret = [kind |-> "ok", val |-> text], !.tr.pc = "done"]

\* an exception leaving the async task: its promise rejects
throw(S, e) == [S EXCEPT !.ret = [kind |-> "err", val |-> e], !.tr.pc = "done"]

\* for the properties: the environment failed in this turn (the session file, a tool)
Faulted(S, what) == [S EXCEPT !.tr.faults = @ \cup {what}]

\* this.onOutput(text)
emit(S, text) == [S EXCEPT !.output = Append(@, [by |-> S.by, text |-> text])]

DiskError == "Error: ENOSPC: no space left on device, write"

\* the line SessionStore.append writes (part_001 21-24): the message with a timestamp
Entry(message) == message @@ [timestamp |-> "now"]

\* the conversation without a leading system message (context.ts 31-32)
NonSystemOf(msgs) == IF msgs # <<>> /\ msgs[1].role = "system" THEN Tail(msgs) ELSE msgs

\* A line of the session file is an Entry when one append wrote it whole. A write that failed
\* part-way leaves the text it got out without the newline, and the next write goes on where it
\* stopped: such a line is the sequence of the pieces written on it (each a whole line's text or
\* the beginning of one) and whether it still lacks its newline.
IsEntry(line) == "role" \in DOMAIN line

\* a line that JSON.parse accepts: an Entry, or the whole text of one at the end of the file
Parses(line) == IsEntry(line) \/ (Len(line.pieces) = 1 /\ line.pieces[1].whole)

EntryOfLine(line) == IF IsEntry(line) THEN line ELSE line.pieces[1].of

\* SessionStore.load (part_001 28-40): the lines of the file as messages, the timestamp dropped;
\* JSON.parse throws on a line that is not the text of one entry
load(log) ==
    IF \A i \in 1..Len(log) : Parses(log[i])
    THEN [i \in 1..Len(log) |->
             [f \in DOMAIN EntryOfLine(log[i]) \ {"timestamp"} |-> EntryOfLine(log[i])[f]]]
    ELSE "SyntaxError"

\* appendFileSync(path, text): the bytes that get out go after the last byte of the file; whole
\* is whether all of the entry's text got out, newline whether the newline after it did
writeFile(log, entry, whole, newline) ==
    LET piece == [whole |-> whole, of |-> entry]
    IN  IF log # <<>> /\ ~IsEntry(log[Len(log)]) /\ log[Len(log)].open
        THEN [log EXCEPT ![Len(log)] = [pieces |-> Append(@.pieces, piece), open |-> ~newline]]
        ELSE IF whole /\ newline THEN Append(log, entry)
        ELSE Append(log, [pieces |-> <<piece>>, open |-> TRUE])

\* what a write that fails has put in the file when it throws: nothing, the beginning of the
\* line, or the line without its newline
Tears == {"nothing", "part", "line"}

\* SessionStore.append (part_001 20-26): appendFileSync writes the line, or throws when the disk
\* fails, after writing what fitted; disk.takes is the number of writes the file still takes,
\* disk.tears what the failing write leaves
append(S, message, disk) ==
    IF disk.takes > 0
    THEN [S EXCEPT !.session = writeFile(@, Entry(message), TRUE, TRUE)]
    ELSE throw(Faulted([S EXCEPT !.session = IF disk.tears = "nothing" THEN @
                                             ELSE writeFile(@, Entry(message), disk.tears = "line", FALSE)],
                       "disk"),
               DiskError)

\* this.messages.push(m); this.session.append(m)
pushAppend(S, message, disk) ==
    append([S EXCEPT !.messages = Append(@, message)], message, disk)

\* the writes the file still takes once one more has been made
After(disk) == [disk EXCEPT !.takes = IF @ > 0 THEN @ - 1 ELSE 0]

LimitText == "Reached maximum turns (" \o ToString(MAX_TURNS) \o "). Last response may be incomplete."

withinTurnLimitInclusive(turns) == turns <= MAX_TURNS

\* while (turns < MAX_TURNS) (agent.ts 75)
withinTurnLimit(turns) == turns < MAX_TURNS

limitReachedThrows(S) == throw(S, LimitText)

\* return `Reached maximum turns ...` (agent.ts 159)
limitReached(S) == return(S, LimitText)

\* the top of the while loop up to the provider call (agent.ts 75-89), or the return after it (159)
loopTop(S) ==
    IF withinTurnLimit(S.tr.turns)
    THEN [S EXCEPT !.tr.turns = @ + 1,
                   !.messages = IF needsCompaction(@, S.tr.active) THEN compact(@, S.tr.active) ELSE @,
                   !.tr.pc = "chat"]
    ELSE limitReached(S)

\* the for loop that ends the turn at a request for a tool the registry lacks
RECURSIVE forLoopUnknownAborts(_, _, _)
forLoopUnknownAborts(S, calls, disk) ==
    IF ~Running(S) THEN S
    ELSE IF calls = <<>> THEN loopTop([S EXCEPT !.tr.calls = <<>>])
    ELSE LET toolCall == Head(calls)
         IN  IF toolCall.function.name \notin RegisteredTools
             THEN return(S, "Error: unknown tool \"" \o toolCall.function.name \o "\"")
             ELSE IF ~JsonParses(toolCall.function.arguments)
             THEN forLoopUnknownAborts(pushAppend(S, ToolMsg("Error: invalid JSON in tool arguments: "
                                                \o toolCall.function.arguments, toolCall.id), disk),
                          Tail(calls), After(disk))
             ELSE [emit(S, "  [tool: " \o toolCall.function.name \o "]")
                     EXCEPT !.tr.calls = calls, !.tr.pc = "tool"]

\* the for loop over the tool calls (agent.ts 116-156) from call Head(calls) on, up to the next
\* tool.execute, and, when no call is left, on to the top of the while loop
RECURSIVE forLoop(_, _, _)
forLoop(S, calls, disk) ==
    IF ~Running(S) THEN S
    ELSE IF calls = <<>> THEN loopTop([S EXCEPT !.tr.calls = <<>>])
    ELSE LET toolCall == Head(calls)
         IN  IF toolCall.function.name \notin RegisteredTools
             THEN forLoop(pushAppend(S, ToolMsg("Error: unknown tool \"" \o toolCall.function.name \o "\"",
                                                toolCall.id), disk),
                          Tail(calls), After(disk))
             ELSE IF ~JsonParses(toolCall.function.arguments)
             THEN forLoop(pushAppend(S, ToolMsg("Error: invalid JSON in tool arguments: "
                                                \o toolCall.function.arguments, toolCall.id), disk),
                          Tail(calls), After(disk))
             ELSE [emit(S, "  [tool: " \o toolCall.function.name \o "]")
                     EXCEPT !.tr.calls = calls, !.tr.pc = "tool"]

\* the continuation that ends the turn when the tool reports no success
afterToolStopsOnFailure(S, result, disk) ==
    IF ~result.success THEN return(S, result.output)
    ELSE forLoop(pushAppend(S, ToolMsg(result.output, Head(S.tr.calls).id), disk), Tail(S.tr.calls), After(disk))

\* tool.execute returned result (agent.ts 148-156): the tool message is pushed and appended, and
\* the for loop goes on with the requests that are left
afterTool(S, result, disk) ==
    forLoop(pushAppend(S, ToolMsg(result.output, Head(S.tr.calls).id), disk), Tail(S.tr.calls), After(disk))

\* the requests in the reverse of the order the provider sent them
requestsReversed(response) ==
    [i \in 1..Len(response.tool_calls) |-> response.tool_calls[Len(response.tool_calls) + 1 - i]]

\* for (const toolCall of response.tool_calls) (agent.ts 116): the requests in iteration order
requests(response) == response.tool_calls

\* the response handling that goes round the loop also when the response asks for no tool
afterResponseLoops(S, response, disk) ==
    LET S1 == pushAppend(S, response, disk)
    IN  IF ~Running(S1) THEN S1
        ELSE IF ~HasToolCalls(response) \/ Len(response.tool_calls) = 0 THEN loopTop(S1)
        ELSE forLoop(S1, requests(response), After(disk))

\* a provider call succeeded (agent.ts 107-113, then the for loop)
afterResponse(S, response, disk) ==
    LET S1 == pushAppend(S, response, disk)
    IN  IF ~Running(S1) THEN S1
        ELSE IF ~HasToolCalls(response) \/ Len(response.tool_calls) = 0 THEN return(S1, response.content)
        ELSE forLoop(S1, requests(response), After(disk))

\* the switch to the fallback that leaves activeProvider as it was
fallBackKeepActive(S) ==
    [emit(S, "  [" \o S.tr.active \o " failed, falling back to " \o Fallback \o "]")
        EXCEPT !.tr.pc = "retry"]

\* agent.ts 92-97: the notice, activeProvider = this.fallback, and the same call again
fallBack(S) ==
    [emit(S, "  [" \o S.tr.active \o " failed, falling back to " \o Fallback \o "]")
        EXCEPT !.tr.active = Fallback, !.tr.pc = "retry"]

\* the failure branch that starts the conversation afresh
onChatFailureForgets(S, e) ==
    IF fallback /\ S.tr.active # Fallback
    THEN fallBack(S)
    ELSE return([S EXCEPT !.messages = SubSeq(@, 1, 1)], "LLM error: " \o e)

\* the failure branch that falls back whichever provider is the active one
onChatFailureFallsBackAgain(S, e) ==
    IF fallback
    THEN fallBack(S)
    ELSE return(S, "LLM error: " \o e)

\* the provider call at agent.ts 89 threw e (agent.ts 90-104)
onChatFailure(S, e) ==
    IF fallback /\ S.tr.active # Fallback
    THEN fallBack(S)
    ELSE return(S, "LLM error: " \o e)

\* agent.ts 99
bothFailedText(name, e2) == "Both providers failed. " \o name \o ": " \o e2

\* the retry at agent.ts 97 threw e2 (agent.ts 98-101)
onRetryFailure(S, e2) == return(S, bothFailedText(S.tr.active, e2))

\* the task handleMessage hands to the lane, from its first statement to its first await
\* (agent.ts 57-89): merge the skills, push and append the user message, enter the loop
begin(S, disk) ==
    LET skillPrompt == buildPrompt(S.tr.input)
        merged == IF skillPrompt # "" /\ S.messages # <<>> /\ S.messages[1].role = "system"
                  THEN [S.messages EXCEPT ![1] = Msg("system", SYSTEM_PROMPT \o skillPrompt)]
                  ELSE S.messages
        S1 == pushAppend([S EXCEPT !.messages = merged], Msg("user", S.tr.input), disk)
    IN  IF ~Running(S1) THEN S1
        ELSE loopTop([S1 EXCEPT !.tr.turns = 0, !.tr.active = Primary])

(***************************************************************************)
(* The environment of the agent: what the providers answer, what the tools *)
(* return, whether the session file can be written.                        *)
(***************************************************************************)
CallKinds == {"good", "unknown", "malformed", "null"}

CallOf(kind, id) ==
    CASE kind = "good" -> ToolCall(id, "shell", "{\"command\":\"ls\"}")
      [] kind = "unknown" -> ToolCall(id, "nonexistent", "{}")
      [] kind = "malformed" -> ToolCall(id, "shell", "{\"command\":")
      [] kind = "null" -> ToolCall(id, "shell", "null")

\* the id OllamaProvider.chat gives request i of a response (groq.ts 119): `call_${Date.now()}_${i}`
CallId(now, i) == "call_" \o ToString(now) \o "_" \o ToString(i)

\* an assistant message asking for the tools of `kinds`; nows[i] is what Date.now() read when
\* the id of request i was made (groq.ts 117-121: one reading for each request)
ToolResponse(kinds, nows) ==
    AssistantCalls("", [i \in 1..Len(kinds) |-> CallOf(kinds[i], CallId(nows[i], i - 1))])

\* by how much the clock has moved on at each reading of a response: each reading is that of
\* the reading before it (the same millisecond) or a later one; the first ever is a later one
Ticks(o) ==
    IF o.kind = "tools"
    THEN {f \in [1..Len(o.calls) -> {0, 1}] : clock = 0 => f[1] = 1}
    ELSE {<<>>}

\* the ticks that cost the budget nothing: a response is built within one millisecond, later
\* than the response before it
DefaultTicks(o) == IF o.kind = "tools" THEN [i \in 1..Len(o.calls) |-> IF i = 1 THEN 1 ELSE 0] ELSE <<>>

\* the readings of the clock for the requests of a response
Readings(ticks) ==
    LET upTo[i \in 0..Len(ticks)] == IF i = 0 THEN clock ELSE upTo[i - 1] + ticks[i]
    IN  [i \in 1..Len(ticks) |-> upTo[i]]

ClockAfter(ticks) == IF ticks = <<>> THEN clock ELSE Readings(ticks)[Len(ticks)]

FinalResponse == Msg("assistant", "hello")

ChatOutcomes ==
    {[kind |-> "fail"], [kind |-> "final"]}
    \cup {[kind |-> "tools", calls |-> c] : c \in UNION {[1..n -> CallKinds] : n \in 1..MaxCalls}}

DefaultOutcome == [kind |-> "tools", calls |-> <<"good">>]

\* what String(e) is for the error a provider's chat throws
ErrorOf(provider) == IF provider = Primary THEN "Error: fetch failed" ELSE "Error: 429 rate limit"

ToolOutcomes == {"ok", "failed", "throws"}

\* ToolResult of a tool that ran: {output, success}
ToolResultOf(o) ==
    IF o = "ok" THEN [output |-> "a.txt", success |-> TRUE]
    ELSE [output |-> "Error: exit code 1", success |-> FALSE]

ToolCrash == "TypeError: Cannot read properties of null (reading 'command')"

\* what execute of a registered tool can do with the parsed arguments: every tool of the registry
\* begins by reading a property of args (part_002 81, files.ts 45, 106, 166), which throws on null
ToolOutcomesFor(toolCall) ==
    IF JsonValue(toolCall.function.arguments) = "null" THEN {"throws"} ELSE ToolOutcomes

\* the outcome that costs the budget nothing
DefaultToolOutcome(toolCall) ==
    IF JsonValue(toolCall.function.arguments) = "null" THEN "throws" ELSE "ok"

\* the writes one step of a turn makes at most: a response and a message for each of its requests
Writes == MaxCalls + 1

\* every write succeeds
DiskOk == [takes |-> Writes, tears |-> "nothing"]

\* what a step is given for its session writes: the number of writes the file takes before one
\* fails (each appendFileSync fails on its own) and what the failing write leaves in the file
DiskStates == {DiskOk} \cup {[takes |-> n, tears |-> m] : n \in 0..(Writes - 1), m \in Tears}

\* the environment may depart from its default only in the first iterations of a turn and only
\* while the budget lasts; a failed write counts when it is what ended the turn
Cost(isDefault, disk) == (IF isDefault THEN 0 ELSE 1) + (IF disk = DiskOk THEN 0 ELSE 1)

Allowed(cost, tr, S) ==
    /\ cost <= budget
    /\ cost > 0 => tr.turns <= FreeRounds

DiskMatters(S, disk) == disk = DiskOk \/ (S.ret.kind = "err" /\ S.ret.val = DiskError)

\* the agent's variables after the synchronous code of turn t has run to S
AgentCommit(S, t) ==
    /\ messages' = S.messages
    /\ session' = S.session
    /\ output' = S.output
    /\ turn' = [turn EXCEPT ![t] = S.tr]
    /\ writers' = IF S.messages # messages /\ (writers = <<>> \/ writers[Len(writers)] # t)
                  THEN Append(writers, t) ELSE writers
    /\ guard' = guard

\* the tasks once turn t has run to S: its promise settles when it returned or threw
TaskAfter(tk, t, S) ==
    IF Running(S) THEN tk ELSE [tk EXCEPT ![t] = [@ EXCEPT !.st = "settled", !.out = S.ret]]

(***************************************************************************)
(* The agent specification: the host calls handleMessage at any time, also *)
(* while an earlier call is in progress.                                   *)
(***************************************************************************)
NoGuard == [method |-> "none"]

\* the lines of an earlier run in the file SessionStore.resume points the store at
EarlierLog == <<Entry(Msg("user", "hi")), Entry(Msg("assistant", "hello"))>>

\* the session file when the agent is built (index.ts 110-118): a new file, or with --resume the
\* file of an earlier session, which the agent appends to and does not load
SessionFiles == {<<>>, EarlierLog}

AgentStart ==
    /\ messages = <<Msg("system", SYSTEM_PROMPT)>>
    /\ session \in SessionFiles
    /\ output = <<>>
    /\ turn = [t \in TaskIds |-> NoTurn]
    /\ writers = <<>>
    /\ clock = 0
    /\ guard = NoGuard

\* the agent constructed and never called (the lane specification leaves it so)
AgentIdle == AgentStart /\ session = <<>> /\ fallback = FALSE /\ budget = 0

\* a resumed session is one of the departures the budget counts
AgentInit ==
    /\ LaneInit
    /\ AgentStart
    /\ fallback \in BOOLEAN
    /\ budget = Budget - (IF session = <<>> THEN 0 ELSE 1)

\* Agent.handleMessage (agent.ts 55-56): the turn is handed to the default lane; when the lane is
\* idle process() calls it at once and it runs to its first await
HandleMessage ==
    /\ nextTask <= MaxMsgs
    /\ \E userInput \in UserInputs, disk \in DiskStates :
           LET t == nextTask
               e == enqueue("default", t, FALSE)
               tr == [NoTurn EXCEPT !.input = userInput]
               S == IF e.started = <<>> THEN Frame(t, tr) ELSE begin(Frame(t, tr), disk)
               cost == Cost(userInput = DefaultInput, disk)
           IN  /\ Allowed(cost, tr, S)
               /\ DiskMatters(S, disk)
               /\ LaneCommit(e, TaskAfter(e.task, t, S), <<t>>)
               /\ AgentCommit(S, t)
               /\ budget' = budget - cost
               /\ UNCHANGED <<fallback, clock>>

\* the provider call at agent.ts 89 settles: a response, or an error
ChatReturns ==
    \E t \in TaskIds :
        /\ task[t].st = "executing"
        /\ turn[t].pc = "chat"
        /\ \E o \in ChatOutcomes, disk \in DiskStates : \E ticks \in Ticks(o) :
           LET tr == turn[t]
               text == IF o.kind = "fail" THEN ErrorOf(tr.active) ELSE IF o.kind = "final" THEN FinalResponse.content ELSE ""
               S0 == Frame(t, [tr EXCEPT !.chats = Append(@, [by |-> tr.active, kind |-> o.kind, text |-> text])])
               S == IF o.kind = "fail" THEN onChatFailure(S0, ErrorOf(tr.active))
                    ELSE IF o.kind = "final" THEN afterResponse(S0, FinalResponse, disk)
                    ELSE afterResponse(S0, ToolResponse(o.calls, Readings(ticks)), disk)
               cost == Cost(o = DefaultOutcome, disk) + (IF ticks = DefaultTicks(o) THEN 0 ELSE 1)
           IN  /\ Allowed(cost, tr, S)
               /\ DiskMatters(S, disk)
               /\ AgentCommit(S, t)
               /\ task' = TaskAfter(task, t, S)
               /\ budget' = budget - cost
               /\ clock' = ClockAfter(ticks)
               /\ UNCHANGED <<lanes, nextTask, enqLog, startLog, doneLog, fallback>>

\* the retry on the fallback at agent.ts 97 settles: a response, or an error
RetryReturns ==
    \E t \in TaskIds :
        /\ task[t].st = "executing"
        /\ turn[t].pc = "retry"
        /\ \E o \in ChatOutcomes, disk \in DiskStates : \E ticks \in Ticks(o) :
           LET tr == turn[t]
               text == IF o.kind = "fail" THEN ErrorOf(Fallback) ELSE IF o.kind = "final" THEN FinalResponse.content ELSE ""
               S0 == Frame(t, [tr EXCEPT !.chats = Append(@, [by |-> Fallback, kind |-> o.kind, text |-> text])])
               S == IF o.kind = "fail" THEN onRetryFailure(S0, ErrorOf(Fallback))
                    ELSE IF o.kind = "final" THEN afterResponse(S0, FinalResponse, disk)
                    ELSE afterResponse(S0, ToolResponse(o.calls, Readings(ticks)), disk)
               cost == Cost(o = DefaultOutcome, disk) + (IF ticks = DefaultTicks(o) THEN 0 ELSE 1)
           IN  /\ Allowed(cost, tr, S)
               /\ DiskMatters(S, disk)
               /\ AgentCommit(S, t)
               /\ task' = TaskAfter(task, t, S)
               /\ budget' = budget - cost
               /\ clock' = ClockAfter(ticks)
               /\ UNCHANGED <<lanes, nextTask, enqLog, startLog, doneLog, fallback>>

\* tool.execute at agent.ts 146 settles: a result, or an exception (agent.ts 148-156, then the loops)
ToolReturns ==
    \E t \in TaskIds :
        /\ task[t].st = "executing"
        /\ turn[t].pc = "tool"
        /\ \E o \in ToolOutcomesFor(Head(turn[t].calls)), disk \in DiskStates :
           LET tr == turn[t]
               S0 == Frame(t, tr)
               S == IF o = "throws" THEN throw(Faulted(S0, "tool"), ToolCrash)
                    ELSE afterTool(S0, ToolResultOf(o), disk)
               cost == Cost(o = DefaultToolOutcome(Head(tr.calls)), disk)
           IN  /\ Allowed(cost, tr, S)
               /\ DiskMatters(S, disk)
               /\ AgentCommit(S, t)
               /\ task' = TaskAfter(task, t, S)
               /\ budget' = budget - cost
               /\ UNCHANGED <<lanes, nextTask, enqLog, startLog, doneLog, fallback, clock>>

\* the lane's process() resumes once the turn it awaited has settled (lane.ts 37-42): the handle
\* of handleMessage gets the outcome, and the next queued turn is called and runs to its first await
AgentResume ==
    /\ "default" \in DOMAIN lanes
    /\ lanes["default"].item # NoTask
    /\ task[lanes["default"].item].st = "settled"
    /\ \E disk \in DiskStates :
           LET e == resume("default")
           IN  IF e.started = <<>>
               THEN /\ disk = DiskOk
                    /\ LaneCommit(e, e.task, <<>>)
                    /\ UNCHANGED agentVars
               ELSE LET t == e.started[Len(e.started)]
                        S == begin(Frame(t, turn[t]), disk)
                    IN  /\ Allowed(Cost(TRUE, disk), turn[t], S)
                        /\ DiskMatters(S, disk)
                        /\ LaneCommit(e, TaskAfter(e.task, t, S), <<>>)
                        /\ AgentCommit(S, t)
                        /\ budget' = budget - Cost(TRUE, disk)
                        /\ UNCHANGED <<fallback, clock>>

AgentNext == HandleMessage \/ ChatReturns \/ RetryReturns \/ ToolReturns \/ AgentResume

AgentSpec == AgentInit /\ [][AgentNext]_vars

(***************************************************************************)
(* The ContextGuard on its own: a conversation is built message by message *)
(* and the guard's two methods are then called on it, with either          *)
(* provider's estimator.                                                   *)
(***************************************************************************)
\* messages of a conversation besides the system message that the guard is given
MaxGuardMsgs == 6

\* a tool output longer than the 60 characters the summary keeps of it
LongOutput == "Error: ENOENT: no such file or directory, open '/home/user/project/a.txt'"

\* the summary message an earlier compaction left
EarlierSummary ==
    Msg("user", "[Context compacted. Summary of earlier conversation:\nUser asked: hi\n]\nContinue from here.")

GuardMessages ==
    {EarlierSummary, Msg("assistant", "hello"),
     AssistantCalls("", <<ToolCall("call_1", "shell", "{\"command\":\"ls\"}")>>),
     ToolMsg(LongOutput, "call_1")}

GuardInit ==
    /\ LaneInit
    /\ AgentStart
    /\ session = <<>>
    /\ fallback = FALSE
    /\ budget = 0

\* the conversation the guard will be given grows by one message
GuardPush ==
    \E m \in GuardMessages :
        /\ guard = NoGuard
        /\ Len(NonSystemOf(messages)) < MaxGuardMsgs
        /\ messages' = Append(messages, m)
        /\ UNCHANGED <<session, output, turn, writers, fallback, budget, clock, guard>>
        /\ UNCHANGED laneVars

\* the conversation the guard will be given has no system message
GuardDropSystem ==
    /\ guard = NoGuard
    /\ messages = <<Msg("system", SYSTEM_PROMPT)>>
    /\ messages' = <<>>
    /\ UNCHANGED <<session, output, turn, writers, fallback, budget, clock, guard>>
    /\ UNCHANGED laneVars

\* context.needsCompaction(messages, provider)
GuardNeedsCompaction ==
    \E provider \in {Primary, Fallback} :
        /\ guard' = [method |-> "needsCompaction", messages |-> messages, provider |-> provider,
                     result |-> needsCompaction(messages, provider)]
        /\ UNCHANGED <<messages, session, output, turn, writers, fallback, budget, clock>>
        /\ UNCHANGED laneVars

\* messages = context.compact(messages, provider)
GuardCompact ==
    \E provider \in {Primary, Fallback} :
        /\ guard' = [method |-> "compact", messages |-> messages, provider |-> provider,
                     result |-> compact(messages, provider)]
        /\ messages' = compact(messages, provider)
        /\ UNCHANGED <<session, output, turn, writers, fallback, budget, clock>>
        /\ UNCHANGED laneVars

\* the values of max_tokens a guard is constructed with
GuardBudgets == {120, 160, 200}

\* new ContextGuard(max, threshold).needsCompaction(messages, provider)
GuardRebudget ==
    \E provider \in {Primary, Fallback}, max \in GuardBudgets :
        /\ guard' = [method |-> "needsCompactionWith", messages |-> messages, provider |-> provider,
                     maxTokens |-> max, result |-> needsCompactionWith(messages, provider, max)]
        /\ UNCHANGED <<messages, session, output, turn, writers, fallback, budget, clock>>
        /\ UNCHANGED laneVars

GuardNext == GuardPush \/ GuardDropSystem \/ GuardNeedsCompaction \/ GuardCompact \/ GuardRebudget

GuardSpec == GuardInit /\ [][GuardNext]_vars

(***************************************************************************)
(* The lane specification: callers enqueue tasks on any key at any time;   *)
(* a task body is a promise that settles (or not) on its own.              *)
(***************************************************************************)
\* a caller hands a task to LaneManager.run ("default") or runParallel(name)
Enqueue ==
    \E name \in LaneNames, throws \in BOOLEAN :
        /\ nextTask <= MaxTasks
        /\ LET e == enqueue(name, nextTask, throws)
           IN  LaneCommit(e, e.task, <<nextTask>>)
        /\ UNCHANGED agentVars

\* the promise returned by an executing task's body settles, with success or with failure; a body
\* that awaits the handle of another task goes on only once that handle has settled
TaskSettle ==
    \E t \in TaskIds, kind \in {"ok", "err"} :
        /\ task[t].st = "executing"
        /\ task[t].awaits # NoTask => task[task[t].awaits].handle \in {"resolved", "rejected"}
        /\ task' = [task EXCEPT ![t] = [@ EXCEPT !.st = "settled", !.out = [kind |-> kind, val |-> OwnValue(t)]]]
        /\ UNCHANGED <<lanes, nextTask, enqLog, startLog, doneLog>>
        /\ UNCHANGED agentVars

\* the microtask that resumes process() once the awaited promise has settled
Resume ==
    \E key \in DOMAIN lanes :
        /\ lanes[key].item # NoTask
        /\ task[lanes[key].item].st = "settled"
        /\ LET e == resume(key)
           IN  LaneCommit(e, e.task, <<>>)
        /\ UNCHANGED agentVars

\* a caller asks LaneManager.getLane for the lane of a name and hands it no task (lane.ts 59-64):
\* the lane is created when the map lacks it, and the map's own lane is returned otherwise
GetLane ==
    \E name \in LaneNames :
        /\ lanes' = WithLane(lanes, getLane(name))
        /\ UNCHANGED <<task, nextTask, enqLog, startLog, doneLog>>
        /\ UNCHANGED agentVars

Init == LaneInit /\ AgentIdle

Next == Enqueue \/ GetLane \/ TaskSettle \/ Resume

Spec == Init /\ [][Next]_vars

\* every task body eventually completes, and the job queue runs every continuation that is ready
FairSpec == Spec /\ WF_vars(TaskSettle) /\ WF_vars(Resume)

(***************************************************************************)
(* The lane specification with re-entrant callers: the body of a task may  *)
(* itself hand a task to the lane it is running on and await its result,   *)
(* as a turn does that calls Agent.handleMessage from inside a turn.       *)
(***************************************************************************)
\* the body of an executing task calls enqueue on its own key and awaits the handle it gets
Reenter ==
    \E t \in TaskIds, throws \in BOOLEAN :
        /\ nextTask <= MaxTasks
        /\ task[t].st = "executing"
        /\ task[t].awaits = NoTask
        /\ LET e == enqueue(task[t].key, nextTask, throws)
           IN  LaneCommit(e, [e.task EXCEPT ![t].awaits = nextTask], <<nextTask>>)
        /\ UNCHANGED agentVars

ReentrantNext == Enqueue \/ GetLane \/ Reenter \/ TaskSettle \/ Resume

ReentrantSpec == Init /\ [][ReentrantNext]_vars

\* every task body that is not waiting eventually completes, and every ready continuation runs
ReentrantFairSpec == ReentrantSpec /\ WF_vars(TaskSettle) /\ WF_vars(Resume)

(***************************************************************************)
(* Properties of the lane.                                                 *)
(***************************************************************************)
IsPrefix(s, t) == Len(s) <= Len(t) /\ SubSeq(t, 1, Len(s)) = s

\* the tasks of key k whose body has been called and has not settled yet
Executing(k) == {t \in TaskIds : task[t].key = k /\ task[t].st = "executing"}

\* the tasks of key k that process() has called and not yet resolved or rejected
InFlight(k) == {t \in TaskIds : task[t].key = k /\ task[t].st \in {"executing", "settled"}}

HandleSettled(t) == task[t].handle \in {"resolved", "rejected"}

\* C1 (lane mutual exclusion): at most one task of a key is executing at any time, and every task
\* of a key that was started before the one started last has settled and had its outcome delivered.
C1_MutualExclusion ==
    \A k \in LaneNames :
        /\ Cardinality(Executing(k)) <= 1
        /\ Cardinality(InFlight(k)) <= 1
        /\ \A i \in 1..Len(startLog[k]) :
               i < Len(startLog[k]) => task[startLog[k][i]].st = "done"

\* a key with a task executing, an earlier task of it done, and another waiting behind it
C1_Witness ==
    \E k \in DOMAIN lanes :
        /\ Executing(k) # {}
        /\ Len(startLog[k]) >= 2
        /\ lanes[k].queue # <<>>

\* C2 (lane FIFO order): per key, the tasks are started in the order they were enqueued and their
\* outcomes are delivered in that order; what is enqueued and not started waits in that order.
C2_Fifo ==
    \A k \in LaneNames :
        /\ IsPrefix(startLog[k], enqLog[k])
        /\ IsPrefix(doneLog[k], startLog[k])
        /\ k \in DOMAIN lanes => enqLog[k] = startLog[k] \o lanes[k].queue

\* three tasks of one key started, two of them delivered, the third enqueued while another was running
C2_Witness ==
    \E k \in DOMAIN lanes :
        /\ Len(doneLog[k]) >= 2
        /\ Len(startLog[k]) >= 3
        /\ ~task[startLog[k][3]].throws
        /\ ~task[startLog[k][2]].throws

\* C3 (lane failure isolation): a handle is rejected only with the failure of its own task and
\* resolved only with the result of its own task; a failure leaves every task queued behind it in
\* the queue, in order, and the lane goes on to run them.
C3_FailureIsolation ==
    /\ \A t \in TaskIds :
           /\ HandleSettled(t) =>
                 /\ task[t].hval = task[t].out
                 /\ task[t].hval.val = OwnValue(t)
                 /\ (task[t].handle = "rejected") = (task[t].out.kind = "err")
           /\ task[t].st = "done" => HandleSettled(t)
           /\ task[t].nsettle <= 1
    /\ \A k \in DOMAIN lanes :
           /\ enqLog[k] = startLog[k] \o lanes[k].queue
           /\ lanes[k].queue # <<>> => InFlight(k) # {}

\* a task of a key failed while another was queued behind it, and that one has since succeeded
C3_Witness ==
    \E k \in DOMAIN lanes :
        \E i, j \in 1..Len(doneLog[k]) :
            /\ i < j
            /\ task[doneLog[k][i]].handle = "rejected"
            /\ ~task[doneLog[k][i]].throws
            /\ task[doneLog[k][j]].handle = "resolved"
            /\ doneLog[k][j] < nextTask - 1

\* C4 (lane liveness): when every task body eventually completes, every enqueued task is eventually
\* delivered to its handle, and a handle is settled at most once, with its own task's outcome.
C4_Liveness ==
    /\ \A t \in TaskIds : (task[t].st # "new") ~> (task[t].st = "done" /\ HandleSettled(t))
    /\ [](\A t \in TaskIds :
            /\ task[t].nsettle <= 1
            /\ HandleSettled(t) => task[t].nsettle = 1 /\ task[t].hval = task[t].out)

\* every task has been delivered, and the lane went idle and was started again on the way
C4_Witness ==
    /\ \A t \in TaskIds : task[t].st = "done" /\ task[t].nsettle = 1
    /\ \E k \in DOMAIN lanes : Len(doneLog[k]) >= 3 /\ ~lanes[k].running

\* C5 (lane key independence): a queued task waits only for a task of its own key; whatever the
\* other keys are doing, a key with tasks waiting has one of its own tasks in flight.
C5_KeyIndependence ==
    \A t \in TaskIds :
        task[t].st = "queued" =>
            \E s \in InFlight(task[t].key) : s < t

\* two keys each with a task executing at the same time, one of them with a backlog
C5_Witness ==
    \E a, b \in DOMAIN lanes :
        /\ a # b
        /\ Executing(a) # {}
        /\ Executing(b) # {}
        /\ Len(lanes[a].queue) >= 2

(***************************************************************************)
(* Properties of the agent's turn loop.                                    *)
(***************************************************************************)
TurnDone(t) == task[t].st \in {"settled", "done"}

TurnCalled(t) == task[t].st # "new"

\* the provider calls turn t has made: those that have settled and the one it is suspended at
ProviderCalls(t) == Len(turn[t].chats) + (IF turn[t].pc \in {"chat", "retry"} THEN 1 ELSE 0)

FallbackNotice == "  [" \o Primary \o " failed, falling back to " \o Fallback \o "]"

\* how many fallback notices turn t has emitted
Notices(t) == Cardinality({i \in 1..Len(output) : output[i].by = t /\ output[i].text = FallbackNotice})

\* C6 (single-writer conversation): a turn changes the conversation only once every handleMessage
\* call made before its own has reached its terminal outcome, so the changes of one turn form one
\* run, the runs are in the order of the calls, and at most one turn is under way at a time.
C6_SingleWriter ==
    /\ \A i, j \in 1..Len(writers) : i < j => writers[i] < writers[j]
    /\ \A i \in 1..Len(writers) : \A s \in TaskIds : s < writers[i] => TurnDone(s)
    /\ Cardinality({t \in TaskIds : turn[t].pc \in {"chat", "retry", "tool"}}) <= 1
    /\ \A t \in TaskIds : task[t].st = "queued" => turn[t].pc = "new" /\ (\A i \in 1..Len(writers) : writers[i] # t)

\* handleMessage was called a second time while the first turn is suspended in its second
\* iteration: the second turn waits in the lane and the conversation holds the first turn's changes only
C6_Witness ==
    /\ turn[1].pc = "tool"
    /\ Len(turn[1].chats) >= 2
    /\ lanes["default"].queue = <<2>>
    /\ turn[2].input \in UserInputs
    /\ writers = <<1>>
    /\ messages[Len(messages)].role = "assistant"

\* C7 as claimed: a turn makes at most MAX_TURNS provider calls, the retries on the fallback included.
C7_AtMostMaxProviderCalls ==
    \A t \in TaskIds : ProviderCalls(t) <= MAX_TURNS

\* C7 (turn limit), amended: a turn runs at most MAX_TURNS loop iterations, whatever earlier turns
\* used; each makes one call to the active provider, and the one iteration that switches to the
\* fallback makes one more, so a turn makes at most MAX_TURNS + 1 provider calls, and at most
\* MAX_TURNS when it never switches.
C7_TurnLimit ==
    \A t \in TaskIds :
        /\ turn[t].turns <= MAX_TURNS
        /\ ProviderCalls(t) <= turn[t].turns + (IF turn[t].active = Fallback THEN 1 ELSE 0)
        /\ ProviderCalls(t) <= MAX_TURNS + 1

\* the second turn of a conversation has made MAX_TURNS + 1 provider calls
C7_Witness ==
    /\ Len(turn[2].chats) = MAX_TURNS + 1
    /\ TurnDone(2)
    /\ Len(turn[1].chats) >= MAX_TURNS

\* every provider call of turn t so far succeeded and asked for tools
AllTools(t) == \A i \in 1..Len(turn[t].chats) : turn[t].chats[i].kind = "tools"

\* C8 (turn-limit termination): in a turn whose provider calls all succeed and all ask for tools,
\* whose tools all return and whose session writes succeed, the loop stops after MAX_TURNS
\* provider calls: once the tools of the last response are dispatched the turn has returned, its
\* result is the limit text, and it is a resolved result, not a rejection.
C8_TurnLimitTermination ==
    \A t \in TaskIds :
        (AllTools(t) /\ turn[t].faults = {}) =>
            /\ ProviderCalls(t) <= MAX_TURNS
            /\ TurnDone(t) =>
                  /\ task[t].out = [kind |-> "ok", val |-> LimitText]
                  /\ Len(turn[t].chats) = MAX_TURNS
            /\ (Len(turn[t].chats) = MAX_TURNS /\ turn[t].pc # "tool") => TurnDone(t)
            /\ task[t].st = "done" => task[t].handle = "resolved" /\ task[t].hval.val = LimitText

\* a turn of MAX_TURNS tool-calling responses has been delivered to its caller
C8_Witness ==
    \E t \in TaskIds :
        /\ AllTools(t)
        /\ Len(turn[t].chats) = MAX_TURNS
        /\ task[t].handle = "resolved"
        /\ task[t].hval.val = LimitText

\* the primary failed on every call turn t made to it (at least one), and no call to the fallback failed
PrimaryDownFallbackUp(t) ==
    /\ fallback
    /\ \E i \in 1..Len(turn[t].chats) : turn[t].chats[i].by = Primary
    /\ \A i \in 1..Len(turn[t].chats) :
          (turn[t].chats[i].kind = "fail") = (turn[t].chats[i].by = Primary)

\* C9 (provider fallback): in a turn where every call to the primary fails and the configured
\* fallback never fails, the fallback notice is emitted exactly once however many calls follow,
\* the turn never ends in a provider failure text, and when the fallback gives a final answer the
\* turn returns that answer.
C9_Fallback ==
    \A t \in TaskIds :
        PrimaryDownFallbackUp(t) =>
            LET n == Len(turn[t].chats)
            IN  /\ Notices(t) = 1
                /\ (TurnDone(t) /\ turn[t].faults = {}) =>
                      /\ task[t].out.kind = "ok"
                      /\ turn[t].chats[n].by = Fallback
                      /\ IF turn[t].chats[n].kind = "final"
                         THEN task[t].out.val = turn[t].chats[n].text
                         ELSE task[t].out.val = LimitText

\* the primary failed, the fallback asked for tools and then answered: the turn returned the answer
C9_Witness ==
    \E t \in TaskIds :
        /\ PrimaryDownFallbackUp(t)
        /\ Len(turn[t].chats) >= 3
        /\ task[t].handle = "resolved"
        /\ task[t].hval.val = FinalResponse.content
        /\ Notices(t) = 1

\* the last two provider calls of turn t: the primary failed, and the retry on the fallback failed too
BothFailed(t) ==
    LET n == Len(turn[t].chats)
    IN  /\ n >= 2
        /\ turn[t].chats[n - 1] = [by |-> Primary, kind |-> "fail", text |-> ErrorOf(Primary)]
        /\ turn[t].chats[n] = [by |-> Fallback, kind |-> "fail", text |-> ErrorOf(Fallback)]
        /\ turn[t].turns = n - 1

\* C10 (combined failure): when the primary fails and the retry on the fallback fails too, the
\* turn ends and the returned failure text names the primary and the fallback and holds the
\* fallback's error.
C10_NamesBothProviders ==
    \A t \in TaskIds :
        BothFailed(t) =>
            /\ TurnDone(t)
            /\ Contains(task[t].out.val, Primary)
            /\ Contains(task[t].out.val, Fallback)
            /\ Contains(task[t].out.val, ErrorOf(Fallback))

\* the last provider call of turn t as the variables after a step hold it
LastChat(tr) == tr.chats[Len(tr.chats)]

\* C11 (provider failure without fallback): with no fallback configured, the step in which a
\* provider call fails ends the turn with the returned text "LLM error: " and the provider's error,
\* and leaves the conversation and the session log exactly as they were before the failure.
C11_ProviderFailure ==
    [][\A t \in TaskIds :
          (/\ ~fallback
           /\ turn[t].pc = "chat"
           /\ Len(turn'[t].chats) = Len(turn[t].chats) + 1
           /\ LastChat(turn'[t]).kind = "fail")
          => /\ turn'[t].pc = "done"
             /\ task'[t].st = "settled"
             /\ task'[t].out = [kind |-> "ok", val |-> "LLM error: " \o ErrorOf(Primary)]
             /\ messages' = messages
             /\ session' = session]_vars

\* without a fallback the provider failed in the second iteration of the first turn; the turn returned
\* the error text, and the second turn runs on the messages the first one left
C11_Witness ==
    /\ ~fallback
    /\ Len(turn[1].chats) = 2
    /\ LastChat(turn[1]).kind = "fail"
    /\ task[1].handle = "resolved"
    /\ task[1].hval.val = "LLM error: Error: fetch failed"
    /\ turn[2].pc = "chat"
    /\ Len(messages) = 5
    /\ messages[2] = Msg("user", turn[1].input)
    /\ HasToolCalls(messages[3])
    /\ messages[4].role = "tool"
    /\ messages[5] = Msg("user", turn[2].input)

\* the three terminal outcomes of a turn, as returned text
TerminalTexts ==
    {FinalResponse.content, LimitText,
     "LLM error: " \o ErrorOf(Primary), "LLM error: " \o ErrorOf(Fallback),
     "Both providers failed. " \o Fallback \o ": " \o ErrorOf(Fallback)}

\* C12 as claimed: every turn that ends returns one of the three terminal texts; the promise of
\* handleMessage is never rejected, whatever the providers, the tools and the session store do.
C12_NeverRejects ==
    \A t \in TaskIds :
        /\ TurnDone(t) => task[t].out.kind = "ok" /\ task[t].out.val \in TerminalTexts
        /\ task[t].handle # "rejected"

\* the first of the requests still to be dispatched is the one turn t is executing; p is the
\* position of the response that carries them
Dispatching(t, p) ==
    /\ HasToolCalls(messages[p])
    /\ LET reqs == messages[p].tool_calls
           k == Len(reqs) - Len(turn[t].calls)
       IN  /\ k >= 0
           /\ turn[t].calls = SubSeq(reqs, k + 1, Len(reqs))
           /\ Len(messages) = p + k
           /\ \A i \in 1..k : /\ messages[p + i].role = "tool"
                               /\ messages[p + i].tool_call_id = reqs[i].id

\* C13 (serial tool dispatch): at most one tool is executing at any time; while the tool of request
\* k + 1 of a response executes, the conversation ends with that response followed by the tool
\* messages of its requests 1..k in request order; and the message appended when the tool
\* returns is the result of the request that was executing.
C13_SerialDispatch ==
    /\ [](/\ Cardinality({t \in TaskIds : turn[t].pc = "tool"}) <= 1
          /\ \A t \in TaskIds :
                turn[t].pc = "tool" => \E p \in 1..Len(messages) : Dispatching(t, p))
    /\ [][\A t \in TaskIds :
            (turn[t].pc = "tool" /\ session' # session /\ \A u \in TaskIds : turn'[u].faults = {})
            => /\ Len(session') > Len(session)
               /\ SubSeq(session', 1, Len(session)) = session
               /\ session'[Len(session) + 1].role = "tool"
               /\ session'[Len(session) + 1].tool_call_id = Head(turn[t].calls).id]_vars

\* the second of two executable requests of one response is executing, the result of the first appended
C13_Witness ==
    \E t \in TaskIds :
        /\ turn[t].pc = "tool"
        /\ Len(turn[t].calls) = 1
        /\ Len(messages) >= 2
        /\ messages[Len(messages)].role = "tool"
        /\ HasToolCalls(messages[Len(messages) - 1])
        /\ Len(messages[Len(messages) - 1].tool_calls) = 2
        /\ messages[Len(messages)].tool_call_id = messages[Len(messages) - 1].tool_calls[1].id
        /\ messages[Len(messages)].content = ToolResultOf("ok").output

\* the tool messages that follow the response at position p, one per request, as far as they go
Answered(p) ==
    {i \in 1..Len(messages[p].tool_calls) :
        /\ p + i <= Len(messages)
        /\ \A j \in 1..i : messages[p + j].role = "tool"}

\* a turn whose last provider call asked for tools and in which nothing was thrown ends only by
\* the turn limit
EndsOnlyByLimit(t) ==
    (TurnDone(t) /\ turn[t].chats # <<>> /\ LastChat(turn[t]).kind = "tools" /\ turn[t].faults = {})
    => /\ task[t].out = [kind |-> "ok", val |-> LimitText]
       /\ turn[t].turns = MAX_TURNS

UnknownToolText(name) == "Error: unknown tool \"" \o name \o "\""

\* C14 (unknown tool): the tool message that answers a request for a tool the registry lacks
\* references the request's id and reports the unknown tool; no tool is executed for such a
\* request; the requests after it are dispatched (the conversation holds the answers of all the
\* requests before the one executing); and the turn is not ended by it: with nothing thrown, a
\* turn whose last response asked for tools ends only at the turn limit.
C14_UnknownTool ==
    /\ \A p \in 1..Len(messages) :
          HasToolCalls(messages[p]) =>
              \A i \in Answered(p) :
                  LET req == messages[p].tool_calls[i]
                  IN  /\ messages[p + i].tool_call_id = req.id
                      /\ req.function.name \notin RegisteredTools
                            => messages[p + i].content = UnknownToolText(req.function.name)
    /\ \A t \in TaskIds :
          /\ turn[t].pc = "tool" =>
                /\ Head(turn[t].calls).function.name \in RegisteredTools
                /\ \E p \in 1..Len(messages) : Dispatching(t, p)
          /\ EndsOnlyByLimit(t)

\* a response asked for a tool the registry lacks and then for the shell: the error message is in the
\* conversation and the shell is executing; and in an earlier iteration a response asked for the
\* unknown tool alone and the loop went on to the next provider call
C14_Witness ==
    \E t \in TaskIds :
        /\ turn[t].pc = "tool"
        /\ Len(turn[t].chats) = 2
        /\ Len(messages) = 6
        /\ HasToolCalls(messages[3])
        /\ Len(messages[3].tool_calls) = 1
        /\ messages[3].tool_calls[1].function.name = "nonexistent"
        /\ messages[4] = ToolMsg("Error: unknown tool \"nonexistent\"", messages[3].tool_calls[1].id)
        /\ HasToolCalls(messages[5])
        /\ Len(messages[5].tool_calls) = 2
        /\ messages[5].tool_calls[1].function.name = "nonexistent"
        /\ messages[6] = ToolMsg("Error: unknown tool \"nonexistent\"", messages[5].tool_calls[1].id)
        /\ turn[t].calls = <<messages[5].tool_calls[2]>>

\* C15 as claimed: a request whose argument payload does not parse to an object is answered by a
\* tool message that references its id and reports the malformed arguments, its tool is not
\* executed, and the turn is not ended by it.
C15_MalformedArguments ==
    /\ \A p \in 1..Len(messages) :
          HasToolCalls(messages[p]) =>
              \A i \in Answered(p) :
                  LET req == messages[p].tool_calls[i]
                  IN  (req.function.name \in RegisteredTools /\ JsonValue(req.function.arguments) # "object")
                      => /\ messages[p + i].tool_call_id = req.id
                         /\ messages[p + i].content
                               = "Error: invalid JSON in tool arguments: " \o req.function.arguments
    /\ \A t \in TaskIds :
          /\ turn[t].pc = "tool" => JsonValue(Head(turn[t].calls).function.arguments) = "object"
          /\ EndsOnlyByLimit(t)

\* C16 (final answer): a response without tool requests ends the turn in the step that receives
\* it: the response is appended to the conversation and to the session log, the turn returns its
\* text, and it is the last provider call of the turn (the only one when it is the first response).
C16_FinalAnswer ==
    /\ [](\A t \in TaskIds :
            \A i \in 1..Len(turn[t].chats) :
                turn[t].chats[i].kind = "final" =>
                    /\ i = Len(turn[t].chats)
                    /\ turn[t].pc = "done"
                    /\ ProviderCalls(t) = i
                    /\ TurnDone(t)
                    /\ turn[t].faults = {} => task[t].out = [kind |-> "ok", val |-> turn[t].chats[i].text])
    /\ [][\A t \in TaskIds :
            (/\ Len(turn'[t].chats) = Len(turn[t].chats) + 1
             /\ LastChat(turn'[t]).kind = "final"
             /\ \A u \in TaskIds : turn'[u].faults = {})
            => /\ messages' = Append(messages, Msg("assistant", LastChat(turn'[t]).text))
               /\ Len(session') = Len(session) + 1
               /\ session'[Len(session')].content = LastChat(turn'[t]).text]_vars

\* the scenario of the specification: [system, user "hi"], the provider answers "hello" with no
\* tool request; the turn has returned "hello" after one provider call
C16_Witness ==
    /\ messages = <<Msg("system", SYSTEM_PROMPT), Msg("user", "hi"), Msg("assistant", "hello")>>
    /\ Len(turn[1].chats) = 1
    /\ turn[1].turns = 1
    /\ task[1].handle = "resolved"
    /\ task[1].hval.val = "hello"

NoFaults == \A t \in TaskIds : turn[t].faults = {}

\* C17 as claimed: at every provider call the session log replays to exactly the conversation held
\* in memory (every change of the turn, the replacement made by compaction included, is in the log).
C17_LogReplaysConversation ==
    \A t \in TaskIds :
        (turn[t].pc \in {"chat", "retry"} /\ NoFaults) => load(session) = NonSystemOf(messages)

IsSummary(msg) ==
    msg.role = "user" /\ Len(msg.content) >= 19 /\ SubSeq(msg.content, 1, 19) = "[Context compacted."

\* C18 as claimed: a turn in which a session write failed has ended with a failure, and the
\* conversation in memory holds no message the log lacks (the summary of a compaction aside).
C18_NoDivergenceAfterWriteFailure ==
    \A t \in TaskIds :
        "disk" \in turn[t].faults =>
            /\ TurnDone(t)
            /\ task[t].out = [kind |-> "err", val |-> DiskError]
            /\ \A i \in 1..Len(messages) :
                   (messages[i].role # "system" /\ ~IsSummary(messages[i]))
                   => \E j \in 1..Len(session) : session[j] = Entry(messages[i])

\* the estimate of message i of msgs: its content and the arguments of each of its tool requests
MessageTokens(msgs, i, provider) ==
    LET msg == msgs[i]
        n == IF HasToolCalls(msg) THEN Len(msg.tool_calls) ELSE 0
        upTo[k \in 0..n] ==
            IF k = 0 THEN estimateTokens(provider, msg.content)
            ELSE upTo[k - 1] + estimateTokens(provider, msg.tool_calls[k].function.arguments)
    IN  upTo[n]

\* the sum of the estimates of all the messages of msgs
TotalTokens(msgs, provider) ==
    LET upTo[k \in 0..Len(msgs)] ==
            IF k = 0 THEN 0 ELSE upTo[k - 1] + MessageTokens(msgs, k, provider)
    IN  upTo[Len(msgs)]

\* C19 (needs_compaction): the result is true exactly when the sum over all messages of the
\* estimate of the content and of every tool request's arguments is strictly greater than
\* max_tokens * threshold; a sum equal to the product gives false.
C19_NeedsCompaction ==
    guard.method = "needsCompaction" =>
        LET total == TotalTokens(guard.messages, guard.provider)
        IN  /\ guard.result = (total * ThresholdDen > maxTokens * ThresholdNum)
            /\ total * ThresholdDen = maxTokens * ThresholdNum => guard.result = FALSE

\* the guard was asked about a conversation with a tool request whose total is exactly the product
C19_Witness ==
    /\ guard.method = "needsCompaction"
    /\ TotalTokens(guard.messages, guard.provider) * ThresholdDen = maxTokens * ThresholdNum
    /\ \E i \in 1..Len(guard.messages) : HasToolCalls(guard.messages[i])
    /\ guard.result = FALSE

\* C20 (compact identity): compact returns the conversation it was given when that has 4 or fewer
\* messages, and when nothing is left to summarise once the leading system message and the last
\* 4 other messages are set aside; so also for a conversation of at most 4 messages that holds
\* the summary of an earlier compaction.
C20_CompactIdentity ==
    (/\ guard.method = "compact"
     /\ (Len(guard.messages) <= 4 \/ Len(NonSystemOf(guard.messages)) <= 4))
    => /\ guard.result = guard.messages
       /\ messages = guard.messages

\* compact was called on a system message followed by an earlier summary and three more messages
\* (five messages, nothing to summarise) and returned it
C20_Witness ==
    /\ guard.method = "compact"
    /\ Len(guard.messages) = 5
    /\ guard.messages[1].role = "system"
    /\ guard.messages[2] = EarlierSummary
    /\ guard.result = guard.messages

\* the first max characters of text, marked when something was cut
Clip(text, max) == IF Len(text) > max THEN SubSeq(text, 1, max) \o "..." ELSE text

\* the names of the tools an assistant message asks for, separated by ", "
NamesOf(msg) ==
    LET upTo[k \in 1..Len(msg.tool_calls)] ==
            IF k = 1 THEN msg.tool_calls[1].function.name
            ELSE upTo[k - 1] \o ", " \o msg.tool_calls[k].function.name
    IN  IF Len(msg.tool_calls) = 0 THEN "" ELSE upTo[Len(msg.tool_calls)]

\* the one line of the summary that stands for a summarised message
DigestOf(msg) ==
    CASE msg.role = "user" -> "User asked: " \o Clip(msg.content, 100)
      [] msg.role = "tool" -> "Tool result: " \o Clip(msg.content, 60)
      [] msg.role = "assistant" /\ HasToolCalls(msg) -> "Assistant used tools: " \o NamesOf(msg)
      [] msg.role = "assistant" /\ ~HasToolCalls(msg) -> "Assistant: " \o Clip(msg.content, 100)

\* the digest lines of msgs[1..n], one per message, in order, each on a line of its own
DigestLines(msgs, n) ==
    LET upTo[k \in 1..n] ==
            IF k = 1 THEN DigestOf(msgs[1]) ELSE upTo[k - 1] \o "\n" \o DigestOf(msgs[k])
    IN  upTo[n]

\* C21 (shape of a compacted conversation): when compact does not return its argument, the result
\* is the leading system message if there is one, unchanged, then one user message, the summary,
\* then the last 4 non-system messages of the argument as they were and in their order; the
\* summary holds one digest line for each of the other messages, in their order, and nothing else
\* of them.
C21_CompactShape ==
    (guard.method = "compact" /\ guard.result # guard.messages) =>
        LET in == guard.messages
            out == guard.result
            h == IF in[1].role = "system" THEN 1 ELSE 0
            rest == NonSystemOf(in)
            n == Len(rest)
        IN  /\ n > 4
            /\ Len(out) = h + 5
            /\ h = 1 => out[1] = in[1]
            /\ \A i \in 1..4 : out[h + 1 + i] = rest[n - 4 + i]
            /\ out[h + 1] = [role |-> "user",
                             content |-> "[Context compacted. Summary of earlier conversation:\n"
                                         \o DigestLines(rest, n - 4)
                                         \o "\n]\nContinue from here."]
            /\ messages = out

\* compact summarised a clipped tool output and a response with tool requests, behind a system message
C21_Witness ==
    /\ guard.method = "compact"
    /\ guard.result # guard.messages
    /\ Len(guard.messages) = 7
    /\ guard.messages[1].role = "system"
    /\ HasToolCalls(guard.messages[2])
    /\ guard.messages[3] = ToolMsg(LongOutput, "call_1")
    /\ guard.result[2].content =
          "[Context compacted. Summary of earlier conversation:\nAssistant used tools: shell\nTool result: "
          \o SubSeq(LongOutput, 1, 60) \o "...\n]\nContinue from here."

\* C22 (compact keeps the system message): when the argument of compact begins with a system
\* message the result begins with that same message, and the result of compact on a conversation
\* that is not empty is not empty.
C22_CompactKeepsSystem ==
    guard.method = "compact" =>
        /\ (guard.messages # <<>> /\ guard.messages[1].role = "system")
              => (guard.result # <<>> /\ guard.result[1] = guard.messages[1])
        /\ guard.messages # <<>> => guard.result # <<>>
        /\ messages = guard.result

\* compact replaced a conversation that begins with the system message, and the result begins with it
C22_Witness ==
    /\ guard.method = "compact"
    /\ guard.result # guard.messages
    /\ guard.messages[1] = Msg("system", SYSTEM_PROMPT)
    /\ guard.result[1] = Msg("system", SYSTEM_PROMPT)
    /\ Len(guard.result) = 6

\* C30 (needs_compaction is monotonic in the budget): when the guard is asked about the same
\* conversation with the same estimator twice, the second time with a larger max_tokens, a
\* false result the first time is a false result the second time.
C30_MonotonicInBudget ==
    [][(/\ guard.method = "needsCompactionWith"
        /\ guard'.method = "needsCompactionWith"
        /\ guard'.messages = guard.messages
        /\ guard'.provider = guard.provider
        /\ guard'.maxTokens > guard.maxTokens
        /\ guard.result = FALSE)
       => guard'.result = FALSE]_vars

\* a conversation found too large for the budget 120 and not for the budget 160
C30_Witness ==
    /\ guard.method = "needsCompactionWith"
    /\ guard.maxTokens = 160
    /\ guard.result = FALSE
    /\ needsCompactionWith(guard.messages, guard.provider, 120)
    /\ Len(guard.messages) >= 3

\* turn t is suspended at a provider call
AtProviderCall(t) == turn[t].pc \in {"chat", "retry"}

\* C23 as claimed: at every provider call every tool request of every assistant message of the
\* conversation has a tool message referencing its id later in the conversation.
C23_RequestsAnswered ==
    \A t \in TaskIds :
        AtProviderCall(t) =>
            \A p \in 1..Len(messages) :
                HasToolCalls(messages[p]) =>
                    \A i \in 1..Len(messages[p].tool_calls) :
                        \E q \in (p + 1)..Len(messages) :
                            /\ messages[q].role = "tool"
                            /\ messages[q].tool_call_id = messages[p].tool_calls[i].id

\* C24 as claimed: in every reachable conversation each tool message references a request of an
\* assistant message earlier in the conversation.
C24_ToolMessagesRefer ==
    \A q \in 1..Len(messages) :
        messages[q].role = "tool" =>
            \E p \in 1..(q - 1) :
                /\ HasToolCalls(messages[p])
                /\ \E i \in 1..Len(messages[p].tool_calls) :
                       messages[p].tool_calls[i].id = messages[q].tool_call_id

\* C25 (system-message invariant): the conversation always begins with a system message and
\* holds no other system message.
C25_SystemFirst ==
    /\ messages # <<>>
    /\ messages[1].role = "system"
    /\ \A i \in 2..Len(messages) : messages[i].role # "system"

\* the skill text has been merged into the system message and a compaction has put its summary
\* right behind it, in the second turn of the conversation
C25_Witness ==
    /\ Len(messages) >= 3
    /\ messages[1] = Msg("system", SYSTEM_PROMPT \o buildPrompt("Review a.ts"))
    /\ IsSummary(messages[2])
    /\ turn[2].pc = "chat"

\* C26 as claimed: at every provider call the estimate of the conversation sent, by the estimator
\* of the provider called, does not exceed max_tokens * threshold.
C26_WithinBudget ==
    \A t \in TaskIds :
        AtProviderCall(t) =>
            TotalTokens(messages, turn[t].active) * ThresholdDen <= maxTokens * ThresholdNum

\* C27 as claimed: the retry on the fallback is sent the conversation as the guard leaves it when
\* asked with the fallback's estimator: a conversation the check finds too large has been compacted.
C27_GuardBeforeRetry ==
    \A t \in TaskIds :
        turn[t].pc = "retry" =>
            (needsCompaction(messages, Fallback) => compact(messages, Fallback) = messages)

\* C28 as claimed: while a turn is under way the system message is the base prompt followed by
\* the skill text selected for that turn's input, and by nothing else.
C28_SkillsRecomputed ==
    \A t \in TaskIds :
        turn[t].pc \in {"chat", "retry", "tool"} =>
            messages[1] = Msg("system", SYSTEM_PROMPT \o buildPrompt(turn[t].input))

\* the outputs a tool that ran returns, with the success flag true and with the flag false
ToolOutputs == {"a.txt", "Error: exit code 1"}

\* C29 (the success flag is no control signal): in the step in which a tool returns, whatever its
\* success flag, its output is appended to the log as a tool message referencing the request that
\* was executing, and the turn goes on: to the next request or to the next provider call (or it
\* ends by the turn limit); this unless a session write fails in the step.
C29_SuccessFlagIgnored ==
    [][\A t \in TaskIds :
          (/\ turn[t].pc = "tool"
           /\ turn'[t] # turn[t]
           /\ \A u \in TaskIds : turn'[u].faults = {})
          => /\ Len(session') > Len(session)
             /\ session'[Len(session) + 1].role = "tool"
             /\ session'[Len(session) + 1].tool_call_id = Head(turn[t].calls).id
             /\ session'[Len(session) + 1].content \in ToolOutputs
             /\ \/ turn'[t].pc \in {"tool", "chat"}
                \/ turn'[t].pc = "done" /\ task'[t].out = [kind |-> "ok", val |-> LimitText]]_vars

\* a tool returned with the success flag false; its output is in the conversation as the answer to
\* its request, and the provider has been called again and has answered
C29_Witness ==
    \E q \in 2..Len(messages) :
        /\ messages[q].role = "tool"
        /\ messages[q].content = "Error: exit code 1"
        /\ HasToolCalls(messages[q - 1])
        /\ messages[q].tool_call_id = messages[q - 1].tool_calls[1].id
        /\ q < Len(messages)
        /\ messages[q + 1].role = "assistant"

(***************************************************************************)
(* Properties of the turn's active provider, the lane's state and the      *)
(* session log.                                                            *)
(***************************************************************************)
\* the notices of a switch of provider that turn t has emitted, whatever providers they name
SwitchNotices(t) ==
    {i \in 1..Len(output) : output[i].by = t /\ Contains(output[i].text, " failed, falling back to ")}

\* a turn that has been called and has not ended
UnderWay(tr) == tr.pc \in {"chat", "retry", "tool"}

\* C31 (active provider per turn): every turn makes its first provider call to the primary,
\* whatever provider the turn before ended on; the active provider of a turn changes at most once,
\* from the primary to the fallback and never back, so the calls of a turn are calls to the primary
\* followed by calls to the fallback; a turn emits at most one switch notice, and a failed call to
\* the fallback is the last call of its turn and ends it.
C31_ActiveProvider ==
    /\ [](\A t \in TaskIds :
            LET tr == turn[t]
                n == Len(tr.chats)
            IN  /\ UnderWay(tr) => tr.active \in {Primary, Fallback}
                /\ (UnderWay(tr) /\ n = 0) => tr.active = Primary /\ tr.pc = "chat"
                /\ n > 0 => tr.chats[1].by = Primary
                /\ \A i, j \in 1..n : (i < j /\ tr.chats[i].by = Fallback) => tr.chats[j].by = Fallback
                /\ tr.pc = "retry" => tr.active = Fallback /\ tr.chats[n].by = Primary
                /\ (UnderWay(tr) /\ tr.pc # "retry") =>
                      tr.active = (IF n > 0 /\ tr.chats[n].by = Fallback THEN Fallback ELSE Primary)
                /\ Cardinality(SwitchNotices(t)) <= 1
                /\ (tr.active = Fallback) = (SwitchNotices(t) # {})
                /\ \A i \in 1..n :
                      (tr.chats[i].by = Fallback /\ tr.chats[i].kind = "fail") =>
                          /\ i = n
                          /\ tr.pc = "done"
                          /\ task[t].out.kind = "ok"
                          /\ Contains(task[t].out.val, ErrorOf(Fallback)))
    /\ [][\A t \in TaskIds :
            /\ (turn[t].pc = "new" /\ turn'[t].pc # "new" /\ turn'[t].faults = {}) =>
                  turn'[t].active = Primary /\ turn'[t].pc = "chat"
            /\ turn[t].active = Fallback => turn'[t].active = Fallback
            /\ (UnderWay(turn[t]) /\ turn'[t].active # turn[t].active) =>
                  /\ turn[t].active = Primary
                  /\ turn'[t].pc = "retry"]_vars

\* the first turn switched to the fallback, went on with it and ended when a later call to it
\* failed; the second turn is at its first provider call, with the primary
C31_Witness ==
    /\ fallback
    /\ turn[1].pc = "done"
    /\ Len(turn[1].chats) >= 3
    /\ turn[1].chats[Len(turn[1].chats)] = [by |-> Fallback, kind |-> "fail", text |-> ErrorOf(Fallback)]
    /\ turn[1].chats[Len(turn[1].chats) - 1].by = Fallback
    /\ turn[1].active = Fallback
    /\ Cardinality(SwitchNotices(1)) = 1
    /\ turn[2].pc = "chat"
    /\ turn[2].chats = <<>>
    /\ turn[2].active = Primary

\* the tasks handed to enqueue on key k
EnqueuedOn(k) == {t \in TaskIds : task[t].key = k /\ task[t].st # "new"}

InQueue(k) == {lanes[k].queue[i] : i \in 1..Len(lanes[k].queue)}

\* C32 (lane state invariant): whenever control is outside the lane's synchronous code, a lane
\* with a non-empty queue has its running flag set; pending counts the tasks waiting to be called
\* and not the task that is executing; and once the handle of every task enqueued on the lane has
\* settled the lane is not running and its queue is empty.
C32_LaneState ==
    \A k \in DOMAIN lanes :
        /\ lanes[k].queue # <<>> => isRunning(lanes[k])
        /\ pending(lanes[k]) = Cardinality({t \in EnqueuedOn(k) : task[t].st = "queued"})
        /\ InQueue(k) \cap InFlight(k) = {}
        /\ lanes[k].item \notin InQueue(k)
        /\ (\A t \in EnqueuedOn(k) : HandleSettled(t)) =>
              /\ ~isRunning(lanes[k])
              /\ pending(lanes[k]) = 0

\* one lane has a task executing and another waiting behind it; on another lane two tasks were
\* enqueued, one while the other was executing, both have been delivered, and the lane is idle
C32_Witness ==
    \E a, b \in DOMAIN lanes :
        /\ a # b
        /\ Executing(a) # {}
        /\ pending(lanes[a]) = 1
        /\ isRunning(lanes[a])
        /\ Len(doneLog[b]) = 2
        /\ ~task[doneLog[b][1]].throws
        /\ \A t \in EnqueuedOn(b) : HandleSettled(t)
        /\ ~isRunning(lanes[b])

\* task t is enqueued on a key behind (or is) a task of that key that awaits a task it enqueued there
BehindReentry(t) ==
    \E s \in TaskIds : s <= t /\ task[s].key = task[t].key /\ task[s].awaits # NoTask

\* C33 (re-entrant enqueue blocks the lane): a task that, while executing on a key, enqueues a
\* task on that key and awaits its result stays executing for ever; the inner task and every task
\* enqueued on the key afterwards stay in the queue and their handles stay pending; every task
\* that is not behind such a task on its own key, whatever the other keys do, is eventually
\* delivered to its handle.
C33_ReentrantBlocks ==
    /\ [](\A s \in TaskIds :
            task[s].awaits # NoTask =>
                LET k == task[s].key
                    u == task[s].awaits
                IN  /\ task[s].st = "executing"
                    /\ task[s].handle = "pending"
                    /\ lanes[k].item = s
                    /\ task[u].key = k
                    /\ \A v \in EnqueuedOn(k) :
                          v > s => /\ task[v].st = "queued"
                                   /\ task[v].handle = "pending"
                                   /\ v \in InQueue(k)
                    /\ \A i \in 1..Len(startLog[k]) : startLog[k][i] <= s)
    /\ \A t \in TaskIds :
          (task[t].st # "new") ~> ((task[t].st = "done" /\ HandleSettled(t)) \/ BehindReentry(t))

\* the first task enqueued an inner task on its own key and awaits it; a third task was enqueued
\* on that key afterwards and waits behind the inner one; a task enqueued on the other key after
\* all of them has run and has been delivered
C33_Witness ==
    /\ task[1].awaits = 2
    /\ task[1].st = "executing"
    /\ task[3].key = task[1].key
    /\ lanes[task[1].key].queue = <<2, 3>>
    /\ task[4].key # task[1].key
    /\ task[4].st = "done"
    /\ task[4].handle = "resolved"

IsSuffix(s, t) == Len(s) <= Len(t) /\ SubSeq(t, Len(t) - Len(s) + 1, Len(t)) = s

\* the entries whose text, whole or in part, is on a line of the log
EntriesOn(line) == IF IsEntry(line) THEN {line} ELSE {line.pieces[i].of : i \in 1..Len(line.pieces)}

\* what is in the file, in order: the pieces written and the newlines
RECURSIVE Written(_)
Written(log) ==
    IF log = <<>> THEN <<>>
    ELSE LET line == Head(log)
             text == IF IsEntry(line) THEN <<[whole |-> TRUE, of |-> line]>> ELSE line.pieces
             end == IF IsEntry(line) \/ ~line.open THEN <<[newline |-> TRUE]>> ELSE <<>>
         IN  text \o end \o Written(Tail(log))

\* the messages of the conversation that were pushed on it: not the system message, not a summary
Pushed(msgs) == SelectSeq(msgs, LAMBDA m : m.role # "system" /\ ~IsSummary(m))

\* C34 as claimed (the log is append-only and independent of compaction): every step leaves the lines of
\* the session log in place and at most adds lines after them; every line is a user, assistant
\* or tool message, never the system message (with or without skill text) and never a summary;
\* and the messages pushed on the conversation that compaction has left in it are the last lines
\* of the log, in order, so that the log holds every message ever pushed, compacted away or not.
C34_LogAppendOnly ==
    /\ [](/\ \A i \in 1..Len(session) :
               \A e \in EntriesOn(session[i]) :
                   /\ e.role \in {"user", "assistant", "tool"}
                   /\ ~IsSummary(e)
          /\ \A i \in 1..Len(session) : Parses(session[i])
          /\ IsSuffix(Pushed(messages), load(session)))
    /\ [][IsPrefix(Written(session), Written(session'))]_vars

====
